---- MODULE Spec2Model ----
(***************************************************************************)
(* Oryol::VertexLayout (code/Modules/Gfx/Core/VertexLayout.h): a fixed-    *)
(* capacity ordered collection of vertex components with per-component     *)
(* byte offsets, the vertex stride and an attribute -> index table.        *)
(*                                                                         *)
(* The header holds the class declaration (member types and widths) and    *)
(* the inline queries.  The bodies of the constructor, Clear, Add,         *)
(* AddInstanced and Append (VertexLayout.cc) and the enum and config       *)
(* values they use (Enums.h, GfxConfig.h, Types.h, StaticArray.h) are      *)
(* modelled from the design description of the class.  Hash and            *)
(* CombinedHash are declared in the header only and are not modelled.      *)
(***************************************************************************)
EXTENDS Integers, Sequences, FiniteSets, TLC

VARIABLES
    comps,            \* StaticArray<Component, MaxNumVertexLayoutComponents>
    byteOffsets,      \* StaticArray<uint8, MaxNumVertexLayoutComponents>
    attrCompIndices,  \* StaticArray<int8, NumVertexAttrs>
    numComps,         \* int8
    byteSize,         \* uint8
    fault,            \* "none", or the hard failure that ended the program
    op,               \* the last operation: [name, arg, call]
    ret,              \* what the last query returned
    hist,             \* ghost: the components added since construction / Clear
    prior             \* ghost: the components a noted Clear found (see SpecReuse)

vars ==
    <<comps, byteOffsets, attrCompIndices, numComps, byteSize, fault, op, ret, hist, prior>>

----------------------------------------------------------------------------
(* Code spaces and configuration *)

\* GfxConfig::MaxNumVertexLayoutComponents (Gfx/Core/GfxConfig.h)
MaxNumVertexLayoutComponents == 16

\* VertexAttr::NumVertexAttrs, the size of the attribute code space
\* (Gfx/Core/Enums.h: Position, Normal, TexCoord0-3, Tangent, Binormal,
\* Weights, Indices, Color0-1, Instance0-3)
NumVertexAttrs == 16

\* VertexAttr::InvalidVertexAttr, the enumerator after NumVertexAttrs
InvalidVertexAttr == 17

\* the "invalid index" sentinel
InvalidIndex == -1

\* the attribute codes the model's inputs use
Position == 0
Normal == 1
TexCoord0 == 2
Instance0 == 12

\* uint8 members wrap at 2^8
Uint8Modulus == 256

\* a component array one slot short of the capacity
CompSlotsShort == 0 .. (MaxNumVertexLayoutComponents - 2)

\* the index range of comps and byteOffsets
CompSlots == 0 .. (MaxNumVertexLayoutComponents - 1)
AttrCodes == 0 .. (NumVertexAttrs - 1)

\* VertexFormat::ByteSize(format): the external format -> size table
VertexFormatByteSize(format) ==
    CASE format = "Float"   -> 4
      [] format = "Float2"  -> 8
      [] format = "Float3"  -> 12
      [] format = "Float4"  -> 16
      [] format = "UByte4N" -> 4
      [] OTHER              -> 0

----------------------------------------------------------------------------
(* VertexLayout::Component *)

\* Component::Component()
DefaultComponent ==
    [Attr |-> InvalidVertexAttr, Format |-> "InvalidVertexFormat",
     SlotIndex |-> 0, StepFunction |-> "PerVertex", StepRate |-> 0]

\* Component::Component(attr, format, slot)
Component(attr, fmt, slot) ==
    [Attr |-> attr, Format |-> fmt,
     SlotIndex |-> slot, StepFunction |-> "PerVertex", StepRate |-> 0]

\* an instanced component whose step rate was left at 0
InstancedNoRate(attr, fmt, slot) ==
    [Component(attr, fmt, slot) EXCEPT !.StepFunction = "PerInstance"]

\* Component::Instanced(attr, format, slot)
Instanced(attr, fmt, slot) ==
    [Component(attr, fmt, slot) EXCEPT !.StepFunction = "PerInstance", !.StepRate = 1]

\* Component::IsValid()
IsValid(comp) == InvalidVertexAttr # comp.Attr

\* Component::Clear()
ComponentClear(comp) ==
    [comp EXCEPT !.Attr = InvalidVertexAttr, !.Format = "InvalidVertexFormat"]

\* a size that counts the step rate in
ComponentByteSizePerRate(comp) == VertexFormatByteSize(comp.Format) * (1 + comp.StepRate)

\* Component::ByteSize()
ComponentByteSize(comp) == VertexFormatByteSize(comp.Format)

----------------------------------------------------------------------------
(* VertexLayout: a layout value is the record of its five members *)

this ==
    [comps |-> comps, byteOffsets |-> byteOffsets, attrCompIndices |-> attrCompIndices,
     numComps |-> numComps, byteSize |-> byteSize]

\* a lookup that takes index 0 for "not there"
ComponentIndexByVertexAttrNoZero(L, attr) ==
    IF L.attrCompIndices[attr] > 0 THEN L.attrCompIndices[attr] ELSE InvalidIndex

\* VertexLayout::ComponentIndexByVertexAttr(attr)
ComponentIndexByVertexAttr(L, attr) == L.attrCompIndices[attr]

\* a test against 0 instead of the sentinel
ContainsNonZero(L, attr) == 0 # ComponentIndexByVertexAttr(L, attr)

\* VertexLayout::Contains(attr)
Contains(L, attr) == InvalidIndex # ComponentIndexByVertexAttr(L, attr)

\* the test the wrong way round
EmptyInverted(L) == 0 # L.numComps

\* VertexLayout::Empty()
Empty(L) == 0 = L.numComps

\* VertexLayout::NumComponents()
NumComponents(L) == L.numComps

\* an index that is one too low
ComponentAtPrev(L, index) == L.comps[IF index > 0 THEN index - 1 ELSE 0]

\* VertexLayout::ComponentAt(index)
ComponentAt(L, index) == L.comps[index]

\* VertexLayout::ByteSize()
ByteSize(L) == L.byteSize

\* the offset of the component's end instead of its start
ComponentByteOffsetEnd(L, index) ==
    L.byteOffsets[index] + ComponentByteSize(L.comps[index])

\* VertexLayout::ComponentByteOffset(index)
ComponentByteOffset(L, index) == L.byteOffsets[index]

\* VertexLayout::VertexLayout(): the empty layout
EmptyLayout ==
    [comps |-> [i \in CompSlots |-> DefaultComponent],
     byteOffsets |-> [i \in CompSlots |-> 0],
     attrCompIndices |-> [a \in AttrCodes |-> InvalidIndex],
     numComps |-> 0, byteSize |-> 0]

\* VertexLayout::Clear(): back to the empty state
ClearLayout(L) == EmptyLayout

\* which hard failure, if any, Add(comp) ends in: the capacity is checked
\* first, then the attribute
AddFault(L, comp) ==
    IF ~(L.numComps < MaxNumVertexLayoutComponents) THEN "CapacityExceeded"
    ELSE IF InvalidIndex # L.attrCompIndices[comp.Attr] THEN "DuplicateAttribute"
    ELSE "none"

\* VertexLayout::Add(comp), past its two checks
AddLayout(L, comp) ==
    [comps |-> [L.comps EXCEPT ![L.numComps] = comp],
     byteOffsets |-> [L.byteOffsets EXCEPT ![L.numComps] = L.byteSize],
     attrCompIndices |-> [L.attrCompIndices EXCEPT ![comp.Attr] = L.numComps],
     numComps |-> L.numComps + 1,
     byteSize |-> (L.byteSize + ComponentByteSize(comp)) % Uint8Modulus]

\* a run of Add calls: the layout reached, the failure that stopped it and
\* the components that went in
RECURSIVE AddAll(_, _, _)
AddAll(L, seq, done) ==
    IF seq = <<>> THEN [layout |-> L, fault |-> "none", added |-> done]
    ELSE IF AddFault(L, Head(seq)) # "none"
         THEN [layout |-> L, fault |-> AddFault(L, Head(seq)), added |-> done]
         ELSE AddAll(AddLayout(L, Head(seq)), Tail(seq), Append(done, Head(seq)))

\* the components of a layout, in order
LiveComps(L) == [i \in 1 .. L.numComps |-> L.comps[i - 1]]

\* a layout built from scratch by Add
Build(seq) == AddAll(EmptyLayout, seq, <<>>).layout

----------------------------------------------------------------------------
(* The state machine *)

Init ==
    /\ comps = EmptyLayout.comps
    /\ byteOffsets = EmptyLayout.byteOffsets
    /\ attrCompIndices = EmptyLayout.attrCompIndices
    /\ numComps = EmptyLayout.numComps
    /\ byteSize = EmptyLayout.byteSize
    /\ fault = "none"
    /\ op = [name |-> "VertexLayout", arg |-> <<>>, call |-> <<>>]
    /\ ret = "void"
    /\ hist = <<>>
    /\ prior = <<>>

SetLayout(L) ==
    /\ comps' = L.comps
    /\ byteOffsets' = L.byteOffsets
    /\ attrCompIndices' = L.attrCompIndices
    /\ numComps' = L.numComps
    /\ byteSize' = L.byteSize

\* a mutator that runs the Add calls of seq on this layout; call keeps the
\* arguments of a convenience overload as the caller wrote them
RunAdds(name, arg, call, seq) ==
    LET r == AddAll(this, seq, <<>>) IN
    /\ SetLayout(r.layout)
    /\ fault' = r.fault
    /\ op' = [name |-> name, arg |-> arg, call |-> call]
    /\ ret' = "void"
    /\ hist' = hist \o r.added
    /\ UNCHANGED prior

\* layout.Add(comp)
Add(comp) ==
    /\ fault = "none"
    /\ RunAdds("Add", comp, <<>>, <<comp>>)

\* layout.Clear(); op.arg keeps the number of components it found
Cleared ==
    /\ fault = "none"
    /\ SetLayout(ClearLayout(this))
    /\ fault' = "none"
    /\ op' = [name |-> "Clear", arg |-> NumComponents(this), call |-> <<>>]
    /\ ret' = "void"
    /\ hist' = <<>>

Clear ==
    /\ Cleared
    /\ UNCHANGED prior

\* the same call, with what it found noted in the ghost
ClearNoting ==
    /\ Cleared
    /\ prior' = hist

\* a trailing slot argument: <<>> when the caller leaves it out, <<slot>>
\* otherwise; the declaration's default fills it in
SlotOr(slotArg, default) == IF slotArg = <<>> THEN default ELSE slotArg[1]

\* layout.Add(attr, format, slot=0): the per-vertex convenience overload
AddByAttr(attr, fmt, slotArg) ==
    /\ fault = "none"
    /\ RunAdds("AddByAttr", Component(attr, fmt, SlotOr(slotArg, 0)),
               <<attr, fmt>> \o slotArg,
               <<Component(attr, fmt, SlotOr(slotArg, 0))>>)

\* layout.AddInstanced(attr, format, slot=1)
AddInstanced(attr, fmt, slotArg) ==
    /\ fault = "none"
    /\ RunAdds("AddInstanced", Instanced(attr, fmt, SlotOr(slotArg, 1)),
               <<attr, fmt>> \o slotArg,
               <<Instanced(attr, fmt, SlotOr(slotArg, 1))>>)

\* layout.Append(other): Add of every component of other, in order
AppendOther(other) ==
    /\ fault = "none"
    /\ RunAdds("Append", other, <<>>, LiveComps(other))

\* a query that writes a member (no method of the class does)
QueryWriting(name, arg, value) ==
    /\ op' = [name |-> name, arg |-> arg, call |-> <<>>]
    /\ ret' = value
    /\ byteSize' = 0
    /\ UNCHANGED <<comps, byteOffsets, attrCompIndices, numComps, fault, hist, prior>>

\* a query that returns value
Query(name, arg, value) ==
    /\ op' = [name |-> name, arg |-> arg, call |-> <<>>]
    /\ ret' = value
    /\ UNCHANGED <<comps, byteOffsets, attrCompIndices, numComps, byteSize, fault, hist, prior>>

\* StaticArray::operator[] with an index outside the array: the range check
\* of a debug build ends the program, a release build reads whatever is there
OutOfRange(name, arg, garbage) ==
    /\ op' = [name |-> name, arg |-> arg, call |-> <<>>]
    /\ \/ fault' = "IndexOutOfRange" /\ ret' = "void"
       \/ fault' = "none" /\ ret' \in garbage
    /\ UNCHANGED <<comps, byteOffsets, attrCompIndices, numComps, byteSize, hist, prior>>

GarbageComps == {DefaultComponent, Component(Position, "Float3", 0)}
GarbageBytes == {0, 255}
GarbageIndices == {InvalidIndex, 0}

QueryEmpty ==
    /\ fault = "none"
    /\ Query("Empty", <<>>, Empty(this))

QueryNumComponents ==
    /\ fault = "none"
    /\ Query("NumComponents", <<>>, NumComponents(this))

QueryByteSize ==
    /\ fault = "none"
    /\ Query("ByteSize", <<>>, ByteSize(this))

QueryComponentAt(index) ==
    /\ fault = "none"
    /\ IF index \in CompSlots
       THEN Query("ComponentAt", index, ComponentAt(this, index))
       ELSE OutOfRange("ComponentAt", index, GarbageComps)

QueryComponentByteOffset(index) ==
    /\ fault = "none"
    /\ IF index \in CompSlots
       THEN Query("ComponentByteOffset", index, ComponentByteOffset(this, index))
       ELSE OutOfRange("ComponentByteOffset", index, GarbageBytes)

QueryComponentIndexByVertexAttr(attr) ==
    /\ fault = "none"
    /\ IF attr \in AttrCodes
       THEN Query("ComponentIndexByVertexAttr", attr, ComponentIndexByVertexAttr(this, attr))
       ELSE OutOfRange("ComponentIndexByVertexAttr", attr, GarbageIndices)

QueryContains(attr) ==
    /\ fault = "none"
    /\ IF attr \in AttrCodes
       THEN Query("Contains", attr, Contains(this, attr))
       ELSE OutOfRange("Contains", attr, {InvalidIndex # g : g \in GarbageIndices})

\* Hash() and CombinedHash(l0, l1) are const on their layouts; the value they
\* compute is not modelled
HashValue == "hash"

QueryHash ==
    /\ fault = "none"
    /\ Query("Hash", <<>>, HashValue)

QueryCombinedHash(other) ==
    /\ fault = "none"
    /\ Query("CombinedHash", other, HashValue)

----------------------------------------------------------------------------
(* Inputs *)

\* slots the callers pass: 0 .. MaxSlot
MaxSlot == 1

\* indices the callers query: -1 .. MaxQueryIndex, and the two at the capacity
MaxQueryIndex == 2

\* every component handed to an add has an attribute of the code space
AttrInputs == {Position, Normal}
FormatInputs == {"Float3", "Float4"}
SlotInputs == 0 .. MaxSlot

\* the slot argument left out, or one of SlotInputs
SlotArgInputs == {<<>>} \cup {<<s>> : s \in SlotInputs}

CompInputs ==
    {Component(Position, "Float3", 0), Component(Normal, "UByte4N", 0),
     Instanced(Instance0, "Float4", 1)}

OtherInputs ==
    { <<>>,
      <<Component(Normal, "Float3", 0), Component(TexCoord0, "Float2", 0)>>,
      <<Instanced(Instance0, "Float4", 1)>>,
      <<Component(TexCoord0, "Float2", 0), Component(Position, "Float3", 0)>> }

OtherLayouts == {Build(seq) : seq \in OtherInputs}

IndexInputs ==
    (-1 .. MaxQueryIndex)
        \cup {MaxNumVertexLayoutComponents - 1, MaxNumVertexLayoutComponents}

AttrQueryInputs == {Position, Instance0, TexCoord0, InvalidVertexAttr}

Next ==
    \/ \E c \in CompInputs : Add(c)
    \/ \E a \in AttrInputs, f \in FormatInputs, s \in SlotArgInputs : AddByAttr(a, f, s)
    \/ \E s \in SlotArgInputs : AddInstanced(Instance0, "Float4", s)
    \/ \E other \in OtherLayouts : AppendOther(other)
    \/ Clear
    \/ QueryEmpty
    \/ QueryNumComponents
    \/ QueryByteSize
    \/ \E i \in IndexInputs : QueryComponentAt(i)
    \/ \E i \in IndexInputs : QueryComponentByteOffset(i)
    \/ \E a \in AttrQueryInputs : QueryComponentIndexByVertexAttr(a)
    \/ \E a \in AttrQueryInputs : QueryContains(a)
    \/ QueryHash
    \/ \E other \in OtherLayouts : QueryCombinedHash(other)

Spec == Init /\ [][Next]_vars

----------------------------------------------------------------------------
(* Filling a layout to its capacity: the attributes go in one fixed order   *)
(* (a permutation of the code space in which no attribute sits at its own  *)
(* code's index); the instance attributes go in through AddInstanced, the  *)
(* others through Add(attr, format); the attributes of FillChoice take     *)
(* either format of FormatInputs, the others are Float4.                   *)

FillAttr(n) == (5 * n + 3) % NumVertexAttrs

IsInstanceAttr(attr) == attr >= Instance0

FillChoice == {Position, Normal, TexCoord0, Instance0}

FillFormats(attr) == IF attr \in FillChoice THEN FormatInputs ELSE {"Float4"}

FillOther == Build(<<Component(FillAttr(numComps), "Float4", 0),
                     Component(FillAttr(numComps + 1), "Float4", 0)>>)

\* Add(attr, format) of the next attribute, when it is a per-vertex one
FillAdd ==
    \E f \in FillFormats(FillAttr(numComps)) :
        /\ ~IsInstanceAttr(FillAttr(numComps))
        /\ AddByAttr(FillAttr(numComps), f, <<>>)

\* AddInstanced(attr, format) of the next attribute, when it is an instance one
FillAddInstanced ==
    \E f \in FillFormats(FillAttr(numComps)) :
        /\ IsInstanceAttr(FillAttr(numComps))
        /\ AddInstanced(FillAttr(numComps), f, <<>>)

\* Add of the first component once more
FillAddAgain ==
    /\ numComps > 0
    /\ Add(ComponentAt(this, 0))

\* Append of a layout of the next two attributes
FillAppend == AppendOther(FillOther)

NextFill ==
    \/ FillAdd
    \/ FillAddInstanced
    \/ FillAddAgain
    \/ FillAppend
    \/ Clear

SpecFill == Init /\ [][NextFill]_vars

\* the same with Add and AddInstanced alone
NextFillAdd ==
    \/ FillAdd
    \/ FillAddInstanced
    \/ FillAddAgain
    \/ Clear

SpecFillAdd == Init /\ [][NextFillAdd]_vars

----------------------------------------------------------------------------
(* Components on their own: one Component object, held in ret, is          *)
(* constructed, cleared and asked for its size; a ByteSize() call keeps    *)
(* the component it was made on in op.arg and its result in ret.           *)

ComponentFormats ==
    {"Float", "Float2", "Float3", "Float4", "UByte4N", "InvalidVertexFormat"}

ComponentOps == {"Component()", "Component", "Instanced", "Component::Clear"}

ComponentCall(name, arg, value) ==
    /\ op' = [name |-> name, arg |-> arg, call |-> <<>>]
    /\ ret' = value
    /\ UNCHANGED <<comps, byteOffsets, attrCompIndices, numComps, byteSize, fault, hist, prior>>

MakeDefault ==
    /\ fault = "none"
    /\ ComponentCall("Component()", <<>>, DefaultComponent)

MakeComponent(attr, fmt, slot) ==
    /\ fault = "none"
    /\ ComponentCall("Component", <<attr, fmt, slot>>, Component(attr, fmt, slot))

MakeInstanced(attr, fmt, slot) ==
    /\ fault = "none"
    /\ ComponentCall("Instanced", <<attr, fmt, slot>>, Instanced(attr, fmt, slot))

CallComponentClear ==
    /\ fault = "none"
    /\ op.name \in ComponentOps
    /\ ComponentCall("Component::Clear", <<>>, ComponentClear(ret))

CallComponentByteSize ==
    /\ fault = "none"
    /\ op.name \in ComponentOps
    /\ ComponentCall("Component::ByteSize", ret, ComponentByteSize(ret))

NextComponent ==
    \/ MakeDefault
    \/ \E a \in AttrQueryInputs, f \in ComponentFormats, s \in SlotInputs :
           MakeComponent(a, f, s)
    \/ \E a \in AttrQueryInputs, f \in ComponentFormats, s \in SlotInputs :
           MakeInstanced(a, f, s)
    \/ CallComponentClear
    \/ CallComponentByteSize

SpecComponent == Init /\ [][NextComponent]_vars

----------------------------------------------------------------------------
(* Reusing a layout: building, clearing and building again, the ghost      *)
(* prior keeping what the last Clear found.                                *)

ReuseOther == Build(<<Component(TexCoord0, "Float2", 0), Component(Position, "Float3", 0)>>)

NextReuse ==
    \/ \E c \in CompInputs : Add(c)
    \/ AddByAttr(Normal, "Float4", <<>>)
    \/ AddInstanced(Instance0, "Float4", <<>>)
    \/ AppendOther(ReuseOther)
    \/ ClearNoting

SpecReuse == Init /\ [][NextReuse]_vars

----------------------------------------------------------------------------
(* Properties *)

RECURSIVE SumSizes(_)
SumSizes(seq) ==
    IF seq = <<>> THEN 0 ELSE ComponentByteSize(Head(seq)) + SumSizes(Tail(seq))

AddOps == {"Add", "AddByAttr", "AddInstanced", "Append"}

\* the components the add-type operation o was asked to add
AddSeq(o) == IF o.name = "Append" THEN LiveComps(o.arg) ELSE <<o.arg>>

\* C1: after any run of successful adds of distinct attributes, up to the
\* capacity and with any formats, ByteSize() is the sum of the byte sizes of
\* the components added so far.
C1_ByteSizeIsSum ==
    fault = "none" => ByteSize(this) = SumSizes(hist)

\* C2: for every index below NumComponents(), ComponentByteOffset(i) is the
\* sum of the byte sizes of the components at 0 .. i-1 (0 for the first), and
\* an add never changes the offset of a component that was already there.
C2_OffsetsArePrefixSums ==
    /\ [](\A i \in 0 .. (NumComponents(this) - 1) :
            ComponentByteOffset(this, i)
                = SumSizes([j \in 1 .. i |-> ComponentAt(this, j - 1)]))
    /\ [][op'.name \in AddOps =>
            \A i \in 0 .. (NumComponents(this) - 1) :
                ComponentByteOffset(this', i) = ComponentByteOffset(this, i)]_vars

\* C2's case: a full layout whose last offset is the largest there is, the
\* last two components having come in through Append
C2_Witness ==
    /\ fault = "none"
    /\ op.name = "Append"
    /\ NumComponents(this) = MaxNumVertexLayoutComponents
    /\ ComponentByteOffset(this, MaxNumVertexLayoutComponents - 1) = 240

\* C5: NumComponents() stays within 0 .. MaxNumVertexLayoutComponents and
\* every counted component is stored in the arrays; an add attempted on a
\* full layout (Add, AddInstanced, or a non-empty Append) ends in
\* CapacityExceeded and leaves the layout as it was, and an Append that would
\* grow the layout past the capacity fails hard.
C5_CapacityRespected ==
    /\ [](/\ NumComponents(this) \in 0 .. MaxNumVertexLayoutComponents
          /\ Len(hist) = NumComponents(this)
          /\ \A i \in 0 .. (NumComponents(this) - 1) :
                /\ i \in DOMAIN comps
                /\ i \in DOMAIN byteOffsets
                /\ ComponentAt(this, i) = hist[i + 1])
    /\ [][op'.name \in AddOps =>
            /\ (NumComponents(this) = MaxNumVertexLayoutComponents /\ AddSeq(op') # <<>>)
                 => (fault' = "CapacityExceeded" /\ this' = this)
            /\ NumComponents(this) + Len(AddSeq(op')) > MaxNumVertexLayoutComponents
                 => fault' # "none"]_vars

\* C5's case: an add on a full layout was refused
C5_Witness ==
    /\ fault = "CapacityExceeded"
    /\ op.name \in {"AddByAttr", "AddInstanced"}
    /\ NumComponents(this) = MaxNumVertexLayoutComponents

\* whether some component added since construction or the last Clear has attr
WasAdded(attr) == \E k \in 1 .. Len(hist) : hist[k].Attr = attr

\* C3: for every attribute code a: if a component with a was added since
\* construction or the last Clear, Contains(a) is true and
\* ComponentIndexByVertexAttr(a) is the index of the component with a;
\* otherwise Contains(a) is false and the lookup gives InvalidIndex.
C3_LookupMatchesContent ==
    \A a \in AttrCodes :
        IF WasAdded(a)
        THEN /\ Contains(this, a)
             /\ ComponentIndexByVertexAttr(this, a) \in 0 .. (NumComponents(this) - 1)
             /\ ComponentAt(this, ComponentIndexByVertexAttr(this, a)).Attr = a
        ELSE /\ ~Contains(this, a)
             /\ ComponentIndexByVertexAttr(this, a) = InvalidIndex

\* C3's case: a layout of three components in which Instance0 is first and
\* Position third, and which has no TexCoord0
C3_Witness ==
    /\ fault = "none"
    /\ NumComponents(this) >= 3
    /\ ComponentIndexByVertexAttr(this, Instance0) = 0
    /\ ComponentIndexByVertexAttr(this, Position) = 2
    /\ ~Contains(this, TexCoord0)

\* C4: an Add (also through the overloads) of a component whose attribute is
\* already in the layout fails hard and changes nothing, and no two
\* components below NumComponents() have the same attribute.
C4_DuplicateAddRefused ==
    /\ [](\A i, j \in 0 .. (NumComponents(this) - 1) :
            i # j => ComponentAt(this, i).Attr # ComponentAt(this, j).Attr)
    /\ [][(op'.name \in {"Add", "AddByAttr", "AddInstanced"}
              /\ Contains(this, op'.arg.Attr)) =>
            /\ fault' # "none"
            /\ NumComponents(this) < MaxNumVertexLayoutComponents
                 => fault' = "DuplicateAttribute"
            /\ this' = this
            /\ hist' = hist]_vars

\* C4's case: Add of a component whose attribute is there, with another
\* format than the stored one, was refused
C4_Witness ==
    /\ fault = "DuplicateAttribute"
    /\ op.name = "Add"
    /\ NumComponents(this) >= 2
    /\ Contains(this, op.arg.Attr)
    /\ ComponentAt(this, ComponentIndexByVertexAttr(this, op.arg.Attr)) # op.arg

\* C6: Clear() on a non-empty layout gives Empty(), NumComponents() = 0,
\* ByteSize() = 0, and for every attribute code the lookup gives InvalidIndex
\* and Contains is false.
C6_ClearEmpties ==
    (op.name = "Clear" /\ op.arg > 0) =>
        /\ fault = "none"
        /\ Empty(this)
        /\ NumComponents(this) = 0
        /\ ByteSize(this) = 0
        /\ \A a \in AttrCodes :
              /\ ComponentIndexByVertexAttr(this, a) = InvalidIndex
              /\ ~Contains(this, a)

\* C6's case: a layout of at least three components was cleared
C6_Witness ==
    /\ op.name = "Clear"
    /\ op.arg >= 3
    /\ Empty(this)

\* whether the layouts A and B have no attribute in common
Disjoint(A, B) == \A a \in AttrCodes : ~(Contains(A, a) /\ Contains(B, a))

\* C7: A.Append(B) does what Add of B's components in order does: when A and
\* B share no attribute and fit the capacity together, the result is A's
\* components followed by B's, B's offsets continuing from A's ByteSize(),
\* and ByteSize() = A.ByteSize() + B.ByteSize(); when B has an attribute of A
\* it fails hard.
C7_AppendIsAddInOrder ==
    [][op'.name = "Append" =>
        LET A == this
            B == op'.arg
        IN  /\ (Disjoint(A, B)
                  /\ NumComponents(A) + NumComponents(B) <= MaxNumVertexLayoutComponents) =>
                /\ fault' = "none"
                /\ LiveComps(this') = LiveComps(A) \o LiveComps(B)
                /\ \A i \in 0 .. (NumComponents(B) - 1) :
                      ComponentByteOffset(this', NumComponents(A) + i)
                          = ByteSize(A) + ComponentByteOffset(B, i)
                /\ ByteSize(this') = ByteSize(A) + ByteSize(B)
            /\ ~Disjoint(A, B) => fault' # "none"]_vars

\* C10 as claimed: ComponentAt with an index outside 0 .. NumComponents()-1
\* is a fatal failure and returns no component.
C10_OutsideCountIsFatal ==
    (op.name = "ComponentAt" /\ op.arg \notin 0 .. (NumComponents(this) - 1)) =>
        fault # "none"

\* C10 as the code has it: ComponentAt(index) returns the index-th component
\* added for 0 <= index < NumComponents(); for an index from NumComponents()
\* up to the capacity it does not fail either, it returns the content of the
\* unused array slot (no check against NumComponents() is made).
C10_ComponentAtWithinArray ==
    (op.name = "ComponentAt" /\ op.arg \in CompSlots) =>
        /\ fault = "none"
        /\ ret = comps[op.arg]
        /\ op.arg < NumComponents(this) => ret = hist[op.arg + 1]

\* C10's case: on a layout of two components, index 2 was asked for and an
\* unset component came back
C10_Witness ==
    /\ op.name = "ComponentAt"
    /\ NumComponents(this) = 2
    /\ op.arg = 2
    /\ fault = "none"
    /\ ret = DefaultComponent

\* C11: ComponentIndexByVertexAttr(attr) and Contains(attr) never fail: for
\* every attribute code and for InvalidVertexAttr they return a value, and
\* InvalidIndex / false when the layout has no component with attr.
C11_LookupsNeverFail ==
    (op.name \in {"ComponentIndexByVertexAttr", "Contains"} /\ ~WasAdded(op.arg)) =>
        /\ fault = "none"
        /\ op.name = "ComponentIndexByVertexAttr" => ret = InvalidIndex
        /\ op.name = "Contains" => ret = FALSE

\* the component a convenience overload is documented to store for the call
\* written as call = <<attr, format>> or <<attr, format, slot>>
Documented(name, call) ==
    IF name = "AddByAttr"
    THEN [Attr |-> call[1], Format |-> call[2],
          SlotIndex |-> IF Len(call) = 3 THEN call[3] ELSE 0,
          StepFunction |-> "PerVertex", StepRate |-> 0]
    ELSE [Attr |-> call[1], Format |-> call[2],
          SlotIndex |-> IF Len(call) = 3 THEN call[3] ELSE 1,
          StepFunction |-> "PerInstance", StepRate |-> 1]

\* C12: after Add(attr, format[, slot]) the new last component is per-vertex
\* with step rate 0 and slot 0 or the given one; after
\* AddInstanced(attr, format[, slot]) it is per-instance with step rate 1 and
\* slot 1 or the given one; offset, stride and attribute index change as by
\* Add(component) of that component.
C12_OverloadsStoreDocumented ==
    [][(op'.name \in {"AddByAttr", "AddInstanced"} /\ fault' = "none") =>
        LET c == Documented(op'.name, op'.call)
            n == NumComponents(this)
        IN  /\ NumComponents(this') = n + 1
            /\ ComponentAt(this', n) = c
            /\ ComponentByteOffset(this', n) = ByteSize(this)
            /\ ComponentIndexByVertexAttr(this', c.Attr) = n
            /\ this' = AddAll(this, <<c>>, <<>>).layout]_vars

\* C12's case: AddInstanced without a slot argument put a third component
\* into slot 1
C12_Witness ==
    /\ fault = "none"
    /\ op.name = "AddInstanced"
    /\ Len(op.call) = 2
    /\ NumComponents(this) = 3
    /\ ComponentAt(this, 2).SlotIndex = 1
    /\ ComponentAt(this, 2).StepRate = 1
    /\ ComponentByteOffset(this, 2) > 0

\* C13: for every index below NumComponents(), ComponentAt(i) is the i-th
\* component added since construction or the last Clear, field by field, and
\* an add never changes a component that was already there.
C13_InsertionOrderKept ==
    /\ [](/\ Len(hist) = NumComponents(this)
          /\ \A i \in 0 .. (NumComponents(this) - 1) :
                /\ ComponentAt(this, i).Attr = hist[i + 1].Attr
                /\ ComponentAt(this, i).Format = hist[i + 1].Format
                /\ ComponentAt(this, i).SlotIndex = hist[i + 1].SlotIndex
                /\ ComponentAt(this, i).StepFunction = hist[i + 1].StepFunction
                /\ ComponentAt(this, i).StepRate = hist[i + 1].StepRate)
    /\ [][op'.name \in AddOps =>
            \A i \in 0 .. (NumComponents(this) - 1) :
                ComponentAt(this', i) = ComponentAt(this, i)]_vars

\* C13's case: an instanced component first, a per-vertex one second, and two
\* more appended behind them
C13_Witness ==
    /\ fault = "none"
    /\ op.name = "Append"
    /\ NumComponents(this) = 4
    /\ ComponentAt(this, 0).Attr = Instance0
    /\ ComponentAt(this, 0).StepFunction = "PerInstance"
    /\ ComponentAt(this, 1).Attr = Position
    /\ ComponentAt(this, 2).Attr = Normal
    /\ ComponentAt(this, 3).Attr = TexCoord0

----------------------------------------------------------------------------
(* C14: after Clear the layout behaves as a freshly constructed one.  Run  *)
(* on a layout that was cleared, a sequence of Add / Add(attr, format) /   *)
(* AddInstanced / Append calls has the outcome it has on a default-        *)
(* constructed layout (the same call fails or succeeds) and leaves the     *)
(* same observable results: count, components, offsets, total size,        *)
(* membership and index of every attribute.  In particular an attribute    *)
(* the Clear found is absent until it is added again, can be added again,  *)
(* while there is room, and the first component added after the Clear is   *)
(* at offset 0.                                                            *)
Fresh(seq) == AddAll(EmptyLayout, seq, <<>>)

SameObservables(L, M) ==
    /\ Empty(L) = Empty(M)
    /\ NumComponents(L) = NumComponents(M)
    /\ ByteSize(L) = ByteSize(M)
    /\ \A i \in 0 .. (NumComponents(M) - 1) :
           /\ ComponentAt(L, i) = ComponentAt(M, i)
           /\ ComponentByteOffset(L, i) = ComponentByteOffset(M, i)
    /\ \A a \in AttrCodes :
           /\ Contains(L, a) = Contains(M, a)
           /\ ComponentIndexByVertexAttr(L, a) = ComponentIndexByVertexAttr(M, a)

AttrsOf(seq) == {seq[i].Attr : i \in 1 .. Len(seq)}

C14_ClearedIsFresh ==
    /\ [](/\ SameObservables(this, Fresh(hist).layout)
          /\ Fresh(hist).fault = "none"
          /\ \A a \in AttrsOf(prior) \ AttrsOf(hist) :
                 /\ ~Contains(this, a)
                 /\ ComponentIndexByVertexAttr(this, a) = InvalidIndex
          /\ hist # <<>> =>
                 /\ ComponentByteOffset(this, 0) = 0
                 /\ ComponentIndexByVertexAttr(this, hist[1].Attr) = 0)
    /\ [][op'.name \in AddOps =>
             LET onFresh == AddAll(Fresh(hist).layout, AddSeq(op'), <<>>) IN
             /\ fault' = onFresh.fault
             /\ SameObservables(this', onFresh.layout)
             /\ \A a \in AttrsOf(prior) \ AttrsOf(hist) :
                    (/\ op'.name # "Append"
                     /\ op'.arg.Attr = a
                     /\ NumComponents(this) < MaxNumVertexLayoutComponents) =>
                        /\ fault' = "none"
                        /\ Contains(this', a)
                        /\ ComponentIndexByVertexAttr(this', a) = NumComponents(this)]_vars

\* a layout of three components was cleared and two of them were added
\* again, what was second now first
C14_Witness ==
    /\ fault = "none"
    /\ Len(prior) = 3
    /\ Len(hist) = 2
    /\ hist[1].Attr = prior[2].Attr
    /\ hist[2].Attr = prior[1].Attr
    /\ ComponentIndexByVertexAttr(this, prior[2].Attr) = 0
    /\ ~Contains(this, prior[3].Attr)

----------------------------------------------------------------------------
(* C15: no query mutates the layout.  A call of Empty, NumComponents,      *)
(* ComponentAt, ComponentIndexByVertexAttr, Contains, ByteSize,            *)
(* ComponentByteOffset, Hash or CombinedHash leaves comps, byteOffsets,    *)
(* attrCompIndices, numComps and byteSize as they were, so the query      *)
(* gives after the call what it gave before it, and what an answered       *)
(* in-range query returned is what the layout still gives.                 *)
QueryOps ==
    {"Empty", "NumComponents", "ComponentAt", "ComponentIndexByVertexAttr",
     "Contains", "ByteSize", "ComponentByteOffset", "Hash", "CombinedHash"}

Answer(L, o) ==
    CASE o.name = "Empty" -> Empty(L)
      [] o.name = "NumComponents" -> NumComponents(L)
      [] o.name = "ByteSize" -> ByteSize(L)
      [] o.name = "ComponentAt" -> ComponentAt(L, o.arg)
      [] o.name = "ComponentByteOffset" -> ComponentByteOffset(L, o.arg)
      [] o.name = "ComponentIndexByVertexAttr" -> ComponentIndexByVertexAttr(L, o.arg)
      [] o.name = "Contains" -> Contains(L, o.arg)
      [] OTHER -> HashValue

InRange(o) ==
    CASE o.name \in {"ComponentAt", "ComponentByteOffset"} -> o.arg \in CompSlots
      [] o.name \in {"ComponentIndexByVertexAttr", "Contains"} -> o.arg \in AttrCodes
      [] OTHER -> TRUE

C15_QueriesLeaveLayout ==
    /\ []((op.name \in QueryOps \ {"Hash", "CombinedHash"} /\ InRange(op)) =>
              ret = Answer(this, op))
    /\ [][op'.name \in QueryOps =>
             /\ comps' = comps
             /\ byteOffsets' = byteOffsets
             /\ attrCompIndices' = attrCompIndices
             /\ numComps' = numComps
             /\ byteSize' = byteSize
             /\ InRange(op') => Answer(this', op') = Answer(this, op')]_vars

\* the offset of the third component of a built layout was asked for and
\* the layout still gives it
C15_Witness ==
    /\ fault = "none"
    /\ op.name = "ComponentByteOffset"
    /\ op.arg = 2
    /\ NumComponents(this) = 3
    /\ ret > 0
    /\ ret = ComponentByteOffset(this, 2)
    /\ ByteSize(this) > ret

----------------------------------------------------------------------------
(* C16: Component::ByteSize() depends only on the component's Format.  The *)
(* size a component gave is the size of every component of the same Format *)
(* whatever its Attr, SlotIndex, StepFunction and StepRate; a component    *)
(* whose Format is InvalidVertexFormat gives 0, and a default-constructed  *)
(* component and a component after Component::Clear() are such components. *)
SameFormatComponents(fmt) ==
    [Attr : AttrQueryInputs, Format : {fmt}, SlotIndex : SlotInputs,
     StepFunction : {"PerVertex", "PerInstance"}, StepRate : 0 .. 1]

C16_ByteSizeByFormatOnly ==
    /\ op.name = "Component::ByteSize" =>
           /\ \A c \in SameFormatComponents(op.arg.Format) : ComponentByteSize(c) = ret
           /\ op.arg.Format = "InvalidVertexFormat" => ret = 0
    /\ op.name \in {"Component()", "Component::Clear"} =>
           /\ ret.Format = "InvalidVertexFormat"
           /\ ~IsValid(ret)
           /\ ComponentByteSize(ret) = 0

\* an instanced Float4 component of slot 1 was asked for its size, 16, the
\* size of a per-vertex Float4 component of slot 0
C16_Witness ==
    /\ op.name = "Component::ByteSize"
    /\ op.arg.Format = "Float4"
    /\ op.arg.StepFunction = "PerInstance"
    /\ op.arg.StepRate = 1
    /\ op.arg.SlotIndex = 1
    /\ ret = ComponentByteSize(Component(Position, "Float4", 0))
    /\ ret > 0

====
